---- MODULE Spec2Model ----
(***************************************************************************)
(* A model of packages/grafana-data/src/datetime/datemath.ts: the date     *)
(* math mini-language (isMathString, parse, parseDateMath, roundToFiscal). *)
(*                                                                         *)
(* A JavaScript string is a sequence of one-character strings, so that it  *)
(* can be indexed; charAt returns a string of length 0 or 1.  A DateTime   *)
(* (a moment instance, in UTC, default locale: weeks start on Sunday) is a *)
(* record of its calendar fields [y, M, D, h, m, s, ms], M in 0..11.       *)
(***************************************************************************)
EXTENDS Integers, Sequences, FiniteSets, TLC

VARIABLES
    pc,          \* position of the call: "start", "scan", "done"
    args,        \* the arguments of the call, a record named after the parameters
    timeObject,  \* the caller's DateTime object: parseDateMath's time and dateTime,
                 \* roundToFiscal's dateTime (one object, mutated in place)
    locals,      \* parseDateMath's locals strippedMathString and i
    result,      \* the value returned, once pc = "done"
    ops,         \* the operations the math string was written from
    iterations   \* iterations of parseDateMath's scan loop so far

vars == <<pc, args, timeObject, locals, result, ops, iterations>>

(***************************************************************************)
(* Bounds of the model.                                                    *)
(***************************************************************************)
\* longest math string, in operations, built from the short list ShortOps
MaxOps == 2

(***************************************************************************)
(* JavaScript values.                                                      *)
(***************************************************************************)
\* the value undefined, where a DateTime is expected
Undefined == [undefined |-> TRUE]

\* the value undefined (or NaN), where a number is expected
UndefinedNum == -1

NOW_STRING == <<"n", "o", "w">>

MAX_DATE_MATH_STRING_LENGTH == 10

UNITS == << <<"y">>, <<"M">>, <<"w">>, <<"d">>, <<"h">>, <<"m">>, <<"s">>, <<"Q">> >>

Digits == <<"0", "1", "2", "3", "4", "5", "6", "7", "8", "9">>

IsDigit(c) == \E k \in 1..10 : Digits[k] = c

DigitValue(c) == (CHOOSE k \in 1..10 : Digits[k] = c) - 1

\* a % b of JavaScript: the remainder has the sign of the dividend
JsRem(a, b) == IF a >= 0 THEN a % b ELSE -((-a) % b)

\* String.prototype.charAt: the empty string outside the string
charAt(str, k) == IF k >= 0 /\ k < Len(str) THEN <<str[k + 1]>> ELSE <<>>

\* String.prototype.substring(from, to), for 0 <= from
substring(str, from, to) ==
    LET hi == IF to > Len(str) THEN Len(str) ELSE to
        lo == IF from > hi THEN hi ELSE from
    IN  SubSeq(str, lo + 1, hi)

\* String.prototype.startsWith
startsWith(str, prefix) ==
    Len(str) >= Len(prefix) /\ SubSeq(str, 1, Len(prefix)) = prefix

\* Array.prototype.includes
includes(arr, x) == \E k \in 1..Len(arr) : arr[k] = x

\* String.prototype.includes
stringIncludes(str, sub) ==
    \E k \in 0..(Len(str) - Len(sub)) : SubSeq(str, k + 1, k + Len(sub)) = sub

\* number of leading digit characters of str
RECURSIVE LeadingDigits(_)
LeadingDigits(str) ==
    IF str # <<>> /\ IsDigit(str[1]) THEN 1 + LeadingDigits(Tail(str)) ELSE 0

RECURSIVE DecimalValue(_, _)
DecimalValue(str, acc) ==
    IF str = <<>> THEN acc ELSE DecimalValue(Tail(str), acc * 10 + DigitValue(str[1]))

\* parseInt(str, 10) of a string with no sign and no leading blank: the value
\* of its leading digits, NaN when it has none
parseInt(str) ==
    IF LeadingDigits(str) = 0 THEN UndefinedNum
    ELSE DecimalValue(SubSeq(str, 1, LeadingDigits(str)), 0)

\* /^-?\d+\.?\d*$/.test(String(input))
isNumber(input) ==
    LET unsigned == IF input # <<>> /\ input[1] = "-" THEN Tail(input) ELSE input
        n1       == LeadingDigits(unsigned)
        rest     == SubSeq(unsigned, n1 + 1, Len(unsigned))
        frac     == IF rest # <<>> /\ rest[1] = "." THEN Tail(rest) ELSE rest
    IN  n1 >= 1 /\ LeadingDigits(frac) = Len(frac)

\* the characters /\s/ matches, as far as a string can hold them here: tab, line
\* feed, vertical tab, form feed, carriage return, space, U+00A0, U+1680 and
\* U+FEFF; it also matches U+2000..U+200A, U+2028, U+2029, U+202F, U+205F and
\* U+3000, which no string of this module can contain
WhitespaceChars ==
    { "\t", "\n", "", "\f", "\r", " ", " ", " ", "﻿" }

\* /\s/.test(c)
IsWhitespace(c) == c \in WhitespaceChars

\* StripWhitespace that strips nothing
KeepWhitespace(str) == str

\* mathString.replace(/\s/g, '')
RECURSIVE StripWhitespace(_)
StripWhitespace(str) ==
    IF str = <<>> THEN <<>>
    ELSE IF IsWhitespace(str[1]) THEN StripWhitespace(Tail(str))
    ELSE <<str[1]>> \o StripWhitespace(Tail(str))

\* MATH_OP_TYPE_MAP[c]
MATH_OP_TYPE_MAP(c) ==
    CASE c = <<"/">> -> 0
      [] c = <<"+">> -> 1
      [] c = <<"-">> -> 2
      [] OTHER       -> UndefinedNum

(***************************************************************************)
(* The calendar collaborator (moment): add, subtract, startOf, endOf.      *)
(***************************************************************************)
\* an invalid DateTime (moment: isValid() is false), what strict parsing makes of a
\* string that is no ISO 8601 date
InvalidDateTime == [invalid |-> TRUE]

\* DateTime.isValid()
isValidDateTime(t) == "y" \in DOMAIN t

IsLeapYear(y) == (y % 4 = 0 /\ y % 100 # 0) \/ y % 400 = 0

\* days in month M (0..11) of year y
DaysInMonth(y, M) ==
    IF M = 1 THEN (IF IsLeapYear(y) THEN 29 ELSE 28)
    ELSE IF M \in {3, 5, 8, 10} THEN 30 ELSE 31

\* days from 1970-01-01 to the civil date y-(M+1)-D
DaysFromCivil(y, M, D) ==
    LET yy  == IF M <= 1 THEN y - 1 ELSE y
        era == yy \div 400
        yoe == yy - era * 400
        mp  == IF M >= 2 THEN M - 2 ELSE M + 10
        doy == (153 * mp + 2) \div 5 + D - 1
        doe == yoe * 365 + yoe \div 4 - yoe \div 100 + doy
    IN  era * 146097 + doe - 719468

\* the civil date [y, M, D] that lies n days after 1970-01-01
CivilFromDays(n) ==
    LET z   == n + 719468
        era == z \div 146097
        doe == z - era * 146097
        yoe == (doe - doe \div 1460 + doe \div 36524 - doe \div 146096) \div 365
        doy == doe - (365 * yoe + yoe \div 4 - yoe \div 100)
        mp  == (5 * doy + 2) \div 153
        D   == doy - (153 * mp + 2) \div 5 + 1
        M   == IF mp < 10 THEN mp + 2 ELSE mp - 10
        y   == yoe + era * 400 + (IF M <= 1 THEN 1 ELSE 0)
    IN  [y |-> y, M |-> M, D |-> D]

\* day of the week, 0 = Sunday
Weekday(t) == (DaysFromCivil(t.y, t.M, t.D) + 4) % 7

\* moment: months are added first, the day of the month clamped to the target month
AddMonths(t, n) ==
    LET total == t.y * 12 + t.M + n
        y2    == total \div 12
        M2    == total % 12
        D2    == IF t.D > DaysInMonth(y2, M2) THEN DaysInMonth(y2, M2) ELSE t.D
    IN  [t EXCEPT !.y = y2, !.M = M2, !.D = D2]

AddDays(t, n) ==
    LET c == CivilFromDays(DaysFromCivil(t.y, t.M, t.D) + n)
    IN  [t EXCEPT !.y = c.y, !.M = c.M, !.D = c.D]

AddSeconds(t, n) ==
    LET total == t.h * 3600 + t.m * 60 + t.s + n
        carry == total \div 86400
        sod   == total % 86400
        u     == AddDays(t, carry)
    IN  [u EXCEPT !.h = sod \div 3600, !.m = (sod % 3600) \div 60, !.s = sod % 60]

\* the instant n units after t (before it, for n < 0)
Shift(t, n, unit) ==
    CASE unit = <<"y">> -> AddMonths(t, 12 * n)
      [] unit = <<"Q">> -> AddMonths(t, 3 * n)
      [] unit = <<"M">> -> AddMonths(t, n)
      [] unit = <<"w">> -> AddDays(t, 7 * n)
      [] unit = <<"d">> -> AddDays(t, n)
      [] unit = <<"h">> -> AddSeconds(t, 3600 * n)
      [] unit = <<"m">> -> AddSeconds(t, 60 * n)
      [] unit = <<"s">> -> AddSeconds(t, n)
      [] OTHER          -> t

\* DateTime.add(num, unit): an invalid DateTime stays as it is
add(t, num, unit) == IF isValidDateTime(t) THEN Shift(t, num, unit) ELSE t

\* DateTime.subtract(num, unit)
subtract(t, num, unit) == IF isValidDateTime(t) THEN Shift(t, 0 - num, unit) ELSE t

\* startOf of a valid DateTime
StartOfUnit(t, unit) ==
    LET day == [t EXCEPT !.h = 0, !.m = 0, !.s = 0, !.ms = 0]
    IN  CASE unit = <<"y">> -> [day EXCEPT !.M = 0, !.D = 1]
          [] unit = <<"Q">> -> [day EXCEPT !.M = t.M - (t.M % 3), !.D = 1]
          [] unit = <<"M">> -> [day EXCEPT !.D = 1]
          [] unit = <<"w">> -> AddDays(day, 0 - Weekday(t))
          [] unit = <<"d">> -> day
          [] unit = <<"h">> -> [t EXCEPT !.m = 0, !.s = 0, !.ms = 0]
          [] unit = <<"m">> -> [t EXCEPT !.s = 0, !.ms = 0]
          [] unit = <<"s">> -> [t EXCEPT !.ms = 0]
          [] OTHER          -> t

\* DateTime.startOf(unit)
startOf(t, unit) == IF isValidDateTime(t) THEN StartOfUnit(t, unit) ELSE t

\* endOf of a valid DateTime
EndOfUnit(t, unit) ==
    LET day == [t EXCEPT !.h = 23, !.m = 59, !.s = 59, !.ms = 999]
    IN  CASE unit = <<"y">> -> [day EXCEPT !.M = 11, !.D = 31]
          [] unit = <<"Q">> -> [day EXCEPT !.M = t.M - (t.M % 3) + 2,
                                           !.D = DaysInMonth(t.y, t.M - (t.M % 3) + 2)]
          [] unit = <<"M">> -> [day EXCEPT !.D = DaysInMonth(t.y, t.M)]
          [] unit = <<"w">> -> AddDays(day, 6 - Weekday(t))
          [] unit = <<"d">> -> day
          [] unit = <<"h">> -> [t EXCEPT !.m = 59, !.s = 59, !.ms = 999]
          [] unit = <<"m">> -> [t EXCEPT !.s = 59, !.ms = 999]
          [] unit = <<"s">> -> [t EXCEPT !.ms = 999]
          [] OTHER          -> t

\* DateTime.endOf(unit)
endOf(t, unit) == IF isValidDateTime(t) THEN EndOfUnit(t, unit) ELSE t

\* DateTime.month(): NaN for an invalid DateTime
month(t) == IF isValidDateTime(t) THEN t.M ELSE UndefinedNum

\* whether instant a is not later than instant b
NotAfter(a, b) ==
    LET da == DaysFromCivil(a.y, a.M, a.D)
        db == DaysFromCivil(b.y, b.M, b.D)
        ma == ((a.h * 60 + a.m) * 60 + a.s) * 1000 + a.ms
        mb == ((b.h * 60 + b.m) * 60 + b.s) * 1000 + b.ms
    IN  da < db \/ (da = db /\ ma <= mb)

(***************************************************************************)
(* datemath.ts                                                             *)
(***************************************************************************)
\* An argument of isMathString is a tagged value, [type |-> "string", value |-> a
\* string] or [type |-> "object", ...] for a DateTime or a Date: typeof reads the tag.
typeof(v) == v.type

\* isMathString, looking for a single "|" instead of the separator "||"
isMathStringSinglePipe(text) ==
    IF typeof(text) # "string" THEN FALSE
    ELSE startsWith(text.value, NOW_STRING) \/ stringIncludes(text.value, <<"|">>)

isMathString(text) ==
    IF typeof(text) # "string" THEN FALSE
    ELSE startsWith(text.value, NOW_STRING) \/ stringIncludes(text.value, <<"|", "|">>)

\* roundToFiscal, rounding a year down by (month - fyStartMonth) % 12 months
roundToFiscalWithout12(fyStartMonth, dateTime, unit, up) ==
    LET downQ == startOf(subtract(dateTime, JsRem(month(dateTime) - fyStartMonth + 3, 3),
                                  <<"M">>), <<"M">>)
        downY == startOf(subtract(dateTime, JsRem(month(dateTime) - fyStartMonth, 12),
                                  <<"M">>), <<"M">>)
    IN  CASE unit = <<"y">> ->
               IF up THEN endOf(add(downY, 11, <<"M">>), <<"M">>) ELSE downY
          [] unit = <<"Q">> ->
               IF up THEN endOf(add(downQ, 2, <<"M">>), <<"M">>) ELSE downQ
          [] OTHER -> Undefined

\* roundToFiscal, rounding up from dateTime itself instead of from the round-down
\* boundary
roundToFiscalUpFromDateTime(fyStartMonth, dateTime, unit, up) ==
    CASE unit = <<"y">> ->
           IF up THEN endOf(add(dateTime, 11, <<"M">>), <<"M">>)
           ELSE startOf(subtract(dateTime,
                                 JsRem(month(dateTime) - fyStartMonth + 12, 12),
                                 <<"M">>), <<"M">>)
      [] unit = <<"Q">> ->
           IF up THEN endOf(add(dateTime, 2, <<"M">>), <<"M">>)
           ELSE startOf(subtract(dateTime,
                                 JsRem(month(dateTime) - fyStartMonth + 3, 3),
                                 <<"M">>), <<"M">>)
      [] OTHER -> Undefined

\* roundToFiscal mutates dateTime in place and returns it (units y and Q), or
\* leaves it alone and returns undefined: the value returned
RECURSIVE roundToFiscal(_, _, _, _)
roundToFiscal(fyStartMonth, dateTime, unit, up) ==
    CASE unit = <<"y">> ->
           IF up
           THEN endOf(add(roundToFiscal(fyStartMonth, dateTime, unit, FALSE),
                          11, <<"M">>), <<"M">>)
           ELSE startOf(subtract(dateTime,
                                 JsRem(month(dateTime) - fyStartMonth + 12, 12),
                                 <<"M">>), <<"M">>)
      [] unit = <<"Q">> ->
           IF up
           THEN endOf(add(roundToFiscal(fyStartMonth, dateTime, unit, FALSE),
                          2, <<"M">>), <<"M">>)
           ELSE startOf(subtract(dateTime,
                                 JsRem(month(dateTime) - fyStartMonth + 3, 3),
                                 <<"M">>), <<"M">>)
      [] OTHER -> Undefined

\* the state of the object passed as dateTime after roundToFiscal has run on it
afterRoundToFiscal(fyStartMonth, dateTime, unit, up) ==
    IF unit = <<"y">> \/ unit = <<"Q">>
    THEN roundToFiscal(fyStartMonth, dateTime, unit, up)
    ELSE dateTime

\* the loop inside getNum, entered with the cursor at k: the cursor when the loop
\* ends, and whether it ended by returning undefined
RECURSIVE getNumLoop(_, _)
getNumLoop(str, k) ==
    IF ~isNumber(charAt(str, k))
    THEN IF k + 1 > MAX_DATE_MATH_STRING_LENGTH THEN [i |-> k + 1, undefined |-> TRUE]
         ELSE getNumLoop(str, k + 1)
    ELSE [i |-> k + 1, undefined |-> FALSE]

\* getNum that reads the whole run of digits, whatever its length
getNumWholeRun(str, k) ==
    IF ~isNumber(charAt(str, k)) THEN [num |-> 1, i |-> k]
    ELSE LET digits == LeadingDigits(SubSeq(str, k + 1, Len(str)))
         IN  [num |-> parseInt(substring(str, k, k + digits)), i |-> k + digits]

\* getNum with the cursor at k: the number returned and the cursor afterwards
getNum(str, k) ==
    IF ~isNumber(charAt(str, k)) THEN [num |-> 1, i |-> k]
    ELSE IF Len(str) = 2 THEN [num |-> parseInt(charAt(str, k)), i |-> k]
    ELSE LET numFrom == k
             loop    == getNumLoop(str, k)
         IN  IF loop.undefined THEN [num |-> UndefinedNum, i |-> loop.i]
             ELSE [num |-> parseInt(substring(str, numFrom, loop.i)), i |-> loop.i]

\* the operation applied by the switch of parseDateMath
applyOperation(type, num, isFiscal, unit, dateTime, up, fyStartMonth) ==
    CASE type = 0 ->
           IF isFiscal THEN afterRoundToFiscal(fyStartMonth, dateTime, unit, up)
           ELSE IF up THEN endOf(dateTime, unit)
           ELSE startOf(dateTime, unit)
      [] type = 1 -> IF num = UndefinedNum THEN dateTime ELSE add(dateTime, num, unit)
      [] type = 2 -> IF num = UndefinedNum THEN dateTime ELSE subtract(dateTime, num, unit)
      [] OTHER    -> dateTime

\* rejects, with the check of the unit left out
rejectsWithoutUnitCheck(type, num, unit) ==
    \/ type = UndefinedNum
    \/ (type = 0 /\ num # 1)

\* rejects, with the check of a Round's count left out
rejectsWithoutCountCheck(type, num, unit) ==
    \/ type = UndefinedNum
    \/ ~includes(UNITS, unit)

\* whether the scanned triple makes parseDateMath return undefined
rejects(type, num, unit) ==
    \/ type = UndefinedNum
    \/ (type = 0 /\ num # 1)
    \/ ~includes(UNITS, unit)

\* one iteration of the while loop of parseDateMath, entered with cursor k:
\* returned says whether the iteration returned undefined
\* iteration that leaves the cursor where it was
iterationWithoutAdvance(str, k, dateTime, up, fyStartMonth) ==
    IF rejects(MATH_OP_TYPE_MAP(charAt(str, k)), getNum(str, k + 1).num,
               charAt(str, getNum(str, k + 1).i))
    THEN [returned |-> TRUE, i |-> k, dateTime |-> dateTime]
    ELSE [returned |-> FALSE, i |-> k, dateTime |-> dateTime]

\* iteration in which the character f is not taken as the fiscal marker
iterationWithoutFiscal(str, k, dateTime, up, fyStartMonth) ==
    LET type == MATH_OP_TYPE_MAP(charAt(str, k))
        n    == getNum(str, k + 1)
        unit == charAt(str, n.i)
    IN  IF rejects(type, n.num, unit)
        THEN [returned |-> TRUE, i |-> n.i + 1, dateTime |-> dateTime]
        ELSE [returned |-> FALSE, i |-> n.i + 1,
              dateTime |-> applyOperation(type, n.num, FALSE, unit, dateTime, up, fyStartMonth)]

iteration(str, k, dateTime, up, fyStartMonth) ==
    LET type     == MATH_OP_TYPE_MAP(charAt(str, k))
        n        == getNum(str, k + 1)
        num      == n.num
        char     == charAt(str, n.i)
        isFiscal == char = <<"f">>
        unit     == IF isFiscal THEN charAt(str, n.i + 1) ELSE char
        next     == IF isFiscal THEN n.i + 2 ELSE n.i + 1
    IN  IF rejects(type, num, unit)
        THEN [returned |-> TRUE, i |-> next, dateTime |-> dateTime]
        ELSE [returned |-> FALSE, i |-> next,
              dateTime |-> applyOperation(type, num, isFiscal, unit, dateTime, up, fyStartMonth)]

RECURSIVE scanLoop(_, _, _, _, _)
scanLoop(str, k, dateTime, up, fyStartMonth) ==
    IF k < Len(str)
    THEN LET r == iteration(str, k, dateTime, up, fyStartMonth)
         IN  IF r.returned THEN [ret |-> Undefined, obj |-> r.dateTime]
             ELSE scanLoop(str, r.i, r.dateTime, up, fyStartMonth)
    ELSE [ret |-> dateTime, obj |-> dateTime]

\* parseDateMath as a function: ret is the value returned, obj the state in which
\* the call leaves the object passed as time
parseDateMath(str, dateTime, up, fyStartMonth) ==
    scanLoop(StripWhitespace(str), 0, dateTime, up, fyStartMonth)

(***************************************************************************)
(* The inputs of the model.                                                *)
(***************************************************************************)
DateTime(y, M, D, h, m, s, ms) ==
    [y |-> y, M |-> M, D |-> D, h |-> h, m |-> m, s |-> s, ms |-> ms]

\* starting timestamps: mid-month, the end of a 31-day month, a leap day, the end of a year
Times ==
    { DateTime(2021, 5, 15, 10, 30, 45, 500),
      DateTime(2021, 0, 31, 23, 59, 59, 999),
      DateTime(2020, 1, 29, 0, 0, 0, 0),
      DateTime(2021, 11, 31, 12, 0, 0, 1) }

\* an operation as written: operator character, count digits (none when the count
\* is left out), fiscal flag, unit character
Operation(op, count, fiscal, unit) ==
    [op |-> op, count |-> count, fiscal |-> fiscal, unit |-> unit]

\* the text of an operation
Render(o) ==
    <<o.op>> \o o.count \o (IF o.fiscal THEN <<"f">> ELSE <<>>) \o <<o.unit>>

RECURSIVE RenderAll(_)
RenderAll(os) == IF os = <<>> THEN <<>> ELSE Render(os[1]) \o RenderAll(Tail(os))

\* str with a blank before every character and one at the end
RECURSIVE Spaced(_)
Spaced(str) == IF str = <<>> THEN <<" ">> ELSE <<" ", str[1]>> \o Spaced(Tail(str))

\* str with the whitespace character blank before every character and at the end
RECURSIVE Padded(_, _)
Padded(str, blank) ==
    IF str = <<>> THEN <<blank>> ELSE <<blank, str[1]>> \o Padded(Tail(str), blank)

\* whitespace other than the space: carriage return, form feed, no-break space
OtherBlanks == { "\r", "\f", " " }

\* the operations longer math strings are built from
ShortOps ==
    { Operation("/", <<>>, FALSE, "d"),       Operation("/", <<>>, FALSE, "M"),
      Operation("/", <<"1">>, FALSE, "w"),    Operation("/", <<"2">>, FALSE, "d"),
      Operation("/", <<>>, TRUE, "y"),        Operation("/", <<>>, TRUE, "Q"),
      Operation("/", <<>>, TRUE, "M"),
      Operation("+", <<"1">>, FALSE, "d"),    Operation("+", <<>>, FALSE, "h"),
      Operation("+", <<"1", "0">>, FALSE, "m"), Operation("+", <<"2">>, FALSE, "M"),
      Operation("-", <<"1">>, FALSE, "d"),    Operation("-", <<"1">>, FALSE, "M"),
      Operation("-", <<"1", "5">>, FALSE, "d"),
      Operation("+", <<"1">>, FALSE, "x"),    Operation("*", <<"1">>, FALSE, "d") }

\* every single operation over these characters
SingleOps ==
    { Operation(op, count, fiscal, unit) :
        op \in {"/", "+", "-", "*"},
        count \in {<<>>, <<"0">>, <<"1">>, <<"2">>, <<"1", "0">>, <<"1", "5">>, <<"1", "0", "0">>},
        fiscal \in BOOLEAN,
        unit \in {"y", "M", "w", "d", "h", "m", "s", "Q", "x"} }

\* numeric runs of 11 digits, one more than MAX_DATE_MATH_STRING_LENGTH
LongRuns ==
    { <<"0", "0", "0", "0", "0", "0", "0", "0", "0", "0", "1">>,
      <<"0", "0", "0", "0", "0", "0", "0", "0", "0", "1", "2">> }

\* single operations whose count is such a run
LongRunOps ==
    { Operation(op, count, fiscal, unit) :
        op \in {"/", "+", "-"},
        count \in LongRuns,
        fiscal \in BOOLEAN,
        unit \in {"y", "M", "w", "d", "h", "m", "s", "Q"} }

RECURSIVE SeqsUpTo(_, _)
SeqsUpTo(S, n) ==
    IF n = 0 THEN {<<>>}
    ELSE LET shorter == SeqsUpTo(S, n - 1)
         IN  shorter \cup {Append(q, x) : q \in shorter, x \in S}

\* the math strings evaluated, each with the operations it was written from
MathInputs ==
    {[ops |-> os, mathString |-> RenderAll(os)] : os \in SeqsUpTo(ShortOps, MaxOps)}
    \cup {[ops |-> <<o>>, mathString |-> Render(o)] : o \in SingleOps \cup LongRunOps}
    \cup {[ops |-> os, mathString |-> Spaced(RenderAll(os))] : os \in SeqsUpTo(ShortOps, 1)}
    \cup {[ops |-> os, mathString |-> Padded(RenderAll(os), blank)] :
              os \in SeqsUpTo(ShortOps, 1), blank \in OtherBlanks}

\* fiscal year start months passed to parseDateMath
StartMonths == {0, 3, 11}

(***************************************************************************)
(* parseDateMath, one step per iteration of its scan loop.                 *)
(***************************************************************************)
Init ==
    /\ pc = "start"
    /\ \E in \in MathInputs, t \in Times, up \in BOOLEAN, fy \in StartMonths :
         /\ args = [mathString |-> in.mathString, time |-> t, roundUp |-> up,
                    fiscalYearStartMonth |-> fy]
         /\ ops = in.ops
         /\ timeObject = t
    /\ locals = [strippedMathString |-> <<>>, i |-> 0]
    /\ result = Undefined
    /\ iterations = 0

\* lines 109-112: strip the whitespace, alias dateTime to time, put the cursor at 0
Enter ==
    /\ pc = "start"
    /\ pc' = "scan"
    /\ locals' = [strippedMathString |-> StripWhitespace(args.mathString), i |-> 0]
    /\ UNCHANGED <<args, timeObject, result, ops, iterations>>

\* lines 118-173: one iteration of the while loop
Iterate ==
    /\ pc = "scan"
    /\ locals.i < Len(locals.strippedMathString)
    /\ LET r == iteration(locals.strippedMathString, locals.i, timeObject,
                          args.roundUp, args.fiscalYearStartMonth)
       IN  /\ locals' = [locals EXCEPT !.i = r.i]
           /\ timeObject' = r.dateTime
           /\ pc' = IF r.returned THEN "done" ELSE "scan"
           /\ result' = Undefined
    /\ iterations' = iterations + 1
    /\ UNCHANGED <<args, ops>>

\* line 174: the cursor has reached the end, return dateTime
Return ==
    /\ pc = "scan"
    /\ locals.i >= Len(locals.strippedMathString)
    /\ pc' = "done"
    /\ result' = timeObject
    /\ UNCHANGED <<args, timeObject, locals, ops, iterations>>

Next == Enter \/ Iterate \/ Return

Spec == Init /\ [][Next]_vars

(***************************************************************************)
(* What the math language says of an operation as written.                 *)
(***************************************************************************)
OperatorChars == {"/", "+", "-"}

UnitChars == {"y", "M", "w", "d", "h", "m", "s", "Q"}

\* the count of an operation: 1 when it is left out
Count(o) == IF o.count = <<>> THEN 1 ELSE DecimalValue(o.count, 0)

\* an operation of the grammar: a known operator and unit, a count of at most 10
\* digits, a Round with count 1 only, the fiscal flag on a Round of y or Q only
ValidOperation(o) ==
    /\ o.op \in OperatorChars
    /\ o.unit \in UnitChars
    /\ Len(o.count) <= MAX_DATE_MATH_STRING_LENGTH
    /\ (o.op = "/" => Count(o) = 1)
    /\ (o.fiscal => o.op = "/" /\ o.unit \in {"y", "Q"})

\* an unrecognized operator, an unrecognized unit, or a Round with a count other than 1
BadTriple(o) ==
    \/ o.op \notin OperatorChars
    \/ o.unit \notin UnitChars
    \/ (o.op = "/" /\ Count(o) # 1)

\* the timestamp t with the valid operation o applied
Applied(t, o, up, fy) ==
    CASE o.op = "/" /\ o.fiscal  -> roundToFiscal(fy, t, <<o.unit>>, up)
      [] o.op = "/" /\ ~o.fiscal -> IF up THEN endOf(t, <<o.unit>>) ELSE startOf(t, <<o.unit>>)
      [] o.op = "+"              -> Shift(t, Count(o), <<o.unit>>)
      [] o.op = "-"              -> Shift(t, 0 - Count(o), <<o.unit>>)

\* the timestamp t with the operations os applied from left to right, each to
\* the result of the one before
RECURSIVE AppliedInOrder(_, _, _, _)
AppliedInOrder(t, os, up, fy) ==
    IF os = <<>> THEN t
    ELSE AppliedInOrder(Applied(t, os[1], up, fy), Tail(os), up, fy)

Done == pc = "done"

(***************************************************************************)
(* Claims about parseDateMath, checked under Spec.                         *)
(***************************************************************************)
\* C1: for a math string made only of valid operations, the value returned is the
\* starting timestamp with the operations applied in textual order, each to the
\* result of the previous one.
C1_AppliedLeftToRight ==
    (Done /\ \A k \in 1..Len(ops) : ValidOperation(ops[k]))
        => result = AppliedInOrder(args.time, ops, args.roundUp, args.fiscalYearStartMonth)

\* C2: an Add or Subtract whose count is written with 2 to 10 digits forming n
\* returns the timestamp shifted by n units, and not undefined.
C2_MultiDigitCountShifts ==
    (/\ Done
     /\ Len(ops) = 1
     /\ ops[1].op \in {"+", "-"}
     /\ Len(ops[1].count) \in 2..MAX_DATE_MATH_STRING_LENGTH
     /\ ~ops[1].fiscal
     /\ ops[1].unit \in UnitChars)
        => /\ result # Undefined
           /\ result = Shift(args.time,
                             IF ops[1].op = "+" THEN Count(ops[1]) ELSE 0 - Count(ops[1]),
                             <<ops[1].unit>>)

\* C3: a math string with a bad triple (unrecognized operator, unrecognized unit,
\* Round with a count other than 1) evaluates to undefined, whatever number of
\* valid operations precede the bad one.
C3_BadTripleIsInvalid ==
    (Done /\ \E k \in 1..Len(ops) : BadTriple(ops[k])) => result = Undefined

\* a valid operation was applied, then a bad triple made the call return undefined
C3_Witness ==
    /\ Done
    /\ Len(ops) = 2
    /\ ValidOperation(ops[1])
    /\ BadTriple(ops[2])
    /\ iterations = 2
    /\ result = Undefined

\* C4: when parseDateMath returns undefined, the caller's timestamp object is in
\* the state it had before the call.
C4_NoPartialShift ==
    (Done /\ result = Undefined) => timeObject = args.time

\* C6: a Round with an explicit count other than 1 evaluates to undefined; for
\* every unit u, /u and /1u are both accepted and give the same timestamp, the
\* start (or, rounding up, the end) of the unit.
C6_RoundCount ==
    /\ (Done /\ \E k \in 1..Len(ops) :
                   ops[k].op = "/" /\ ops[k].count # <<>> /\ Count(ops[k]) # 1)
          => result = Undefined
    /\ (/\ Done
        /\ Len(ops) = 1
        /\ ops[1].op = "/"
        /\ ops[1].count \in {<<>>, <<"1">>}
        /\ ~ops[1].fiscal
        /\ ops[1].unit \in UnitChars)
          => LET other == [ops[1] EXCEPT !.count = IF @ = <<>> THEN <<"1">> ELSE <<>>]
             IN  /\ result # Undefined
                 /\ result = parseDateMath(Render(other), args.time, args.roundUp,
                                            args.fiscalYearStartMonth).ret
                 /\ result = IF args.roundUp THEN endOf(args.time, <<ops[1].unit>>)
                              ELSE startOf(args.time, <<ops[1].unit>>)

\* /1w was accepted and moved the timestamp to the start of its week
C6_Witness ==
    /\ Done
    /\ ops = <<Operation("/", <<"1">>, FALSE, "w")>>
    /\ ~args.roundUp
    /\ result = startOf(args.time, <<"w">>)
    /\ result # args.time

\* C7: a Round with the fiscal flag and a unit other than y or Q makes
\* parseDateMath return undefined, never a timestamp.
C7_FiscalOtherUnitIsInvalid ==
    (Done /\ \E k \in 1..Len(ops) :
                ops[k].op = "/" /\ ops[k].fiscal /\ ops[k].unit \notin {"y", "Q"})
        => result = Undefined

\* how deep roundToFiscal calls itself: once for a round-up of y or Q, whose
\* inner call rounds down and calls nothing
RECURSIVE roundToFiscalDepth(_, _)
roundToFiscalDepth(unit, up) ==
    IF (unit = <<"y">> \/ unit = <<"Q">>) /\ up THEN 1 + roundToFiscalDepth(unit, FALSE)
    ELSE 0

\* C14: a numeric run longer than MAX_DATE_MATH_STRING_LENGTH characters makes
\* parseDateMath return undefined, for every operator and every unit after the run.
C14_LongRunIsInvalid ==
    (Done /\ \E k \in 1..Len(ops) : Len(ops[k].count) > MAX_DATE_MATH_STRING_LENGTH)
        => result = Undefined

\* +00000000001d has been rejected
C14_Witness ==
    /\ Done
    /\ ops = <<Operation("+", <<"0", "0", "0", "0", "0", "0", "0", "0", "0", "0", "1">>,
                         FALSE, "d")>>
    /\ iterations = 1
    /\ result = Undefined

\* a single Round of the grammar, fiscal or not, has been evaluated
SingleRound ==
    /\ Done
    /\ Len(ops) = 1
    /\ ops[1].op = "/"
    /\ ops[1].count \in {<<>>, <<"1">>}
    /\ ops[1].unit \in UnitChars
    /\ ops[1].fiscal => ops[1].unit \in {"y", "Q"}

\* C16: rounding is idempotent: /u applied to the result of /u gives the result
\* of /u applied once, for every unit, roundUp value and timestamp, and so do
\* /fy and /fQ for every fiscal start month.
C16_RoundIdempotent ==
    SingleRound
        => /\ result # Undefined
           /\ parseDateMath(args.mathString, result, args.roundUp,
                            args.fiscalYearStartMonth).ret = result

\* a single Add of a fixed-length unit with a written count has been evaluated
SingleFixedAdd ==
    /\ Done
    /\ Len(ops) = 1
    /\ ops[1].op = "+"
    /\ ~ops[1].fiscal
    /\ ops[1].unit \in {"s", "m", "h", "d", "w"}
    /\ ops[1].count # <<>>
    /\ Len(ops[1].count) <= MAX_DATE_MATH_STRING_LENGTH

\* C17: for the fixed-length units s, m, h, d, w and every count n >= 0, also
\* of two or more digits, +nu returns a timestamp and -nu on it returns the
\* timestamp started from.
C17_AddSubtractRoundTrip ==
    SingleFixedAdd
        => /\ result # Undefined
           /\ parseDateMath(Render([ops[1] EXCEPT !.op = "-"]), result, args.roundUp,
                            args.fiscalYearStartMonth).ret = args.time

\* C20: parseDateMath terminates on every math string: the cursor never moves
\* backward, every iteration advances it by at least one character (getNum
\* included), the scan takes at most as many iterations as the stripped string
\* has characters, and roundToFiscal calls itself to depth 1 at most.
C20_Terminates ==
    /\ [](/\ iterations <= Len(locals.strippedMathString)
          /\ (pc = "scan" /\ locals.i < Len(locals.strippedMathString))
                => getNum(locals.strippedMathString, locals.i + 1).i >= locals.i + 1
          /\ \A k \in 1..Len(ops) :
                 roundToFiscalDepth(<<ops[k].unit>>, args.roundUp) <= 1)
    /\ [][/\ locals'.i >= locals.i
          /\ iterations' # iterations => locals'.i >= locals.i + 1]_vars

\* two operations, the second a fiscal round-up, scanned in two iterations to
\* the end of the string
C20_Witness ==
    /\ Done
    /\ Len(ops) = 2
    /\ ops[2] = Operation("/", <<>>, TRUE, "Q")
    /\ args.roundUp
    /\ iterations = 2
    /\ locals.i = Len(locals.strippedMathString)
    /\ result # Undefined


(***************************************************************************)
(* roundToFiscal, called on its own.                                       *)
(***************************************************************************)
\* timestamps in every month of a leap and a common year, early, mid-month and
\* late, and the last instant of every month
FiscalTimes ==
    {DateTime(y, M, D, 10, 30, 45, 500) : y \in {2020, 2021}, M \in 0..11, D \in {1, 15, 28}}
    \cup {DateTime(2021, M, DaysInMonth(2021, M), 23, 59, 59, 999) : M \in 0..11}

InitFiscal ==
    /\ pc = "start"
    /\ \E fy \in 0..11, t \in FiscalTimes, up \in BOOLEAN,
          u \in {<<"y">>, <<"Q">>, <<"M">>, <<"d">>} :
         /\ args = [fyStartMonth |-> fy, dateTime |-> t, unit |-> u, roundUp |-> up]
         /\ timeObject = t
    /\ locals = [strippedMathString |-> <<>>, i |-> 0]
    /\ result = Undefined
    /\ ops = <<>>
    /\ iterations = 0

\* lines 177-196
CallRoundToFiscal ==
    /\ pc = "start"
    /\ pc' = "done"
    /\ result' = roundToFiscal(args.fyStartMonth, args.dateTime, args.unit, args.roundUp)
    /\ timeObject' = afterRoundToFiscal(args.fyStartMonth, args.dateTime, args.unit,
                                        args.roundUp)
    /\ UNCHANGED <<args, locals, ops, iterations>>

NextFiscal == CallRoundToFiscal

SpecFiscal == InitFiscal /\ [][NextFiscal]_vars

\* months counted from year 0
MonthIndex(t) == t.y * 12 + t.M

\* the first instant of a month
IsStartOfMonth(t) == t.D = 1 /\ t.h = 0 /\ t.m = 0 /\ t.s = 0 /\ t.ms = 0

\* the last instant of a month
IsEndOfMonth(t) ==
    t.D = DaysInMonth(t.y, t.M) /\ t.h = 23 /\ t.m = 59 /\ t.s = 59 /\ t.ms = 999

(***************************************************************************)
(* Claims about roundToFiscal, checked under SpecFiscal.                   *)
(***************************************************************************)
\* C8: fiscal round-down of a quarter moves the timestamp back by 0 to 2 months
\* and lands on the start of a month m' with (m' - f) divisible by 3; the result
\* is never later than the input.
C8_QuarterRoundDown ==
    (Done /\ args.unit = <<"Q">> /\ ~args.roundUp)
        => /\ MonthIndex(args.dateTime) - MonthIndex(result) \in 0..2
           /\ (result.M - args.fyStartMonth) % 3 = 0
           /\ IsStartOfMonth(result)
           /\ NotAfter(result, args.dateTime)

\* C9: fiscal round-down of a year moves the timestamp back by exactly
\* (m - f + 12) mod 12 months and snaps to the start of that month: the result
\* lies in month f and is never later than the input.
C9_YearRoundDown ==
    (Done /\ args.unit = <<"y">> /\ ~args.roundUp)
        => /\ MonthIndex(args.dateTime) - MonthIndex(result)
                = (args.dateTime.M - args.fyStartMonth + 12) % 12
           /\ IsStartOfMonth(result)
           /\ result.M = args.fyStartMonth
           /\ NotAfter(result, args.dateTime)
           /\ timeObject = result

\* a January timestamp rounded down to a fiscal year starting in December: one
\* month back, into the year before
C9_Witness ==
    /\ Done
    /\ args.unit = <<"y">>
    /\ ~args.roundUp
    /\ args.dateTime.M = 0
    /\ args.fyStartMonth = 11
    /\ result.M = 11
    /\ result.y = args.dateTime.y - 1

\* C10: fiscal round-up is the end of the month 11 months (year) or 2 months
\* (quarter) after the round-down boundary of the same timestamp: the last instant
\* of the fiscal period that starts at the round-down boundary.
C10_RoundUpEndsPeriod ==
    (Done /\ args.unit \in {<<"y">>, <<"Q">>} /\ args.roundUp)
        => LET down == roundToFiscal(args.fyStartMonth, args.dateTime, args.unit, FALSE)
               n    == IF args.unit = <<"y">> THEN 11 ELSE 2
           IN  /\ MonthIndex(result) = MonthIndex(down) + n
               /\ IsEndOfMonth(result)
               /\ AddDays(startOf(result, <<"d">>), 1) = AddMonths(down, n + 1)
               /\ timeObject = result

\* 15 June rounded up to the fiscal quarter of a fiscal year starting in April:
\* the end of June
C10_Witness ==
    /\ Done
    /\ args.unit = <<"Q">>
    /\ args.roundUp
    /\ args.fyStartMonth = 3
    /\ args.dateTime = DateTime(2021, 5, 15, 10, 30, 45, 500)
    /\ result = DateTime(2021, 5, 30, 23, 59, 59, 999)

(***************************************************************************)
(* isMathString, called on its own.                                        *)
(***************************************************************************)
\* longest text, in characters
MaxTextLen == 4

TextChars == {"n", "o", "w", "|", "1"}

\* the texts of the documented examples: now-1h, 2021-01-01, 2021-01-01||+1d
ExampleTexts ==
    { <<"n", "o", "w", "-", "1", "h">>,
      <<"2", "0", "2", "1", "-", "0", "1", "-", "0", "1">>,
      <<"2", "0", "2", "1", "-", "0", "1", "-", "0", "1", "|", "|", "+", "1", "d">> }

\* strings, a DateTime and a Date
TextInputs ==
    {[type |-> "string", value |-> str] : str \in SeqsUpTo(TextChars, MaxTextLen) \cup ExampleTexts}
    \cup {[type |-> "object", value |-> [DateTime |-> t]] : t \in Times}
    \cup {[type |-> "object", value |-> [Date |-> t]] : t \in Times}

InitIsMath ==
    /\ pc = "start"
    /\ \E text \in TextInputs : args = [text |-> text]
    /\ timeObject = Undefined
    /\ locals = [strippedMathString |-> <<>>, i |-> 0]
    /\ result = Undefined
    /\ ops = <<>>
    /\ iterations = 0

\* lines 28-33
CallIsMathString ==
    /\ pc = "start"
    /\ pc' = "done"
    /\ result' = isMathString(args.text)
    /\ UNCHANGED <<args, timeObject, locals, ops, iterations>>

NextIsMath == CallIsMathString

SpecIsMath == InitIsMath /\ [][NextIsMath]_vars

\* C5: isMathString(text) is true if and only if text is a string that starts
\* with now or contains ||; it is false for every other input.
C5_IsMathString ==
    Done => result =
        (/\ args.text.type = "string"
         /\ LET v == args.text.value
            IN  \/ (Len(v) >= 3 /\ v[1] = "n" /\ v[2] = "o" /\ v[3] = "w")
                \/ \E k \in 1..(Len(v) - 1) : v[k] = "|" /\ v[k + 1] = "|")

\* a text that does not start with now and has || after its first character
C5_Witness ==
    /\ Done
    /\ args.text.type = "string"
    /\ Len(args.text.value) = 4
    /\ args.text.value[1] = "1"
    /\ args.text.value[2] = "|"
    /\ args.text.value[3] = "|"
    /\ result = TRUE

(***************************************************************************)
(* parse (lines 42-75): the anchor, the math string and their evaluation.  *)
(***************************************************************************)
\* does sep occur in str at the 0-based index k
OccursAt(str, sep, k) ==
    k + Len(sep) <= Len(str) /\ SubSeq(str, k + 1, k + Len(sep)) = sep

\* String.prototype.indexOf: the first 0-based index of sep in str, -1 when there is none
indexOf(str, sep) ==
    IF \E k \in 0..Len(str) : OccursAt(str, sep, k)
    THEN CHOOSE k \in 0..Len(str) :
             OccursAt(str, sep, k) /\ \A j \in 0..(k - 1) : ~OccursAt(str, sep, j)
    ELSE 0 - 1

\* String.prototype.split with a non-empty separator: every part, left to right
RECURSIVE split(_, _)
split(str, sep) ==
    IF indexOf(str, sep) < 0 THEN <<str>>
    ELSE <<SubSeq(str, 1, indexOf(str, sep))>>
             \o split(SubSeq(str, indexOf(str, sep) + Len(sep) + 1, Len(str)), sep)

SEPARATOR == <<"|", "|">>

\* every character of str is a decimal digit
AllDigits(str) == \A k \in 1..Len(str) : IsDigit(str[k])

\* dateTime(str, ISO_8601): strict parsing of the calendar dates YYYY, YYYY-MM
\* and YYYY-MM-DD (the other ISO 8601 forms, with a time or a week, are not
\* modelled and no input uses them); any other string is an invalid DateTime
dateTimeISO(str) ==
    LET yyyy == SubSeq(str, 1, 4)
        mm   == SubSeq(str, 6, 7)
        dd   == SubSeq(str, 9, 10)
        okY  == Len(str) >= 4 /\ AllDigits(yyyy)
        okM  == /\ Len(str) >= 7 /\ str[5] = "-" /\ AllDigits(mm)
                /\ DecimalValue(mm, 0) \in 1..12
        okD  == /\ Len(str) = 10 /\ str[8] = "-" /\ AllDigits(dd)
                /\ DecimalValue(dd, 0) \in
                       1..DaysInMonth(DecimalValue(yyyy, 0), DecimalValue(mm, 0) - 1)
    IN  IF Len(str) = 4 /\ okY
        THEN DateTime(DecimalValue(yyyy, 0), 0, 1, 0, 0, 0, 0)
        ELSE IF Len(str) = 7 /\ okY /\ okM
        THEN DateTime(DecimalValue(yyyy, 0), DecimalValue(mm, 0) - 1, 1, 0, 0, 0, 0)
        ELSE IF Len(str) = 10 /\ okY /\ okM /\ okD
        THEN DateTime(DecimalValue(yyyy, 0), DecimalValue(mm, 0) - 1,
                      DecimalValue(dd, 0), 0, 0, 0, 0)
        ELSE InvalidDateTime

\* isDateTime(text)
isDateTime(text) == typeof(text) = "object" /\ "DateTime" \in DOMAIN text.value

\* text instanceof Date
isDate(text) == typeof(text) = "object" /\ "Date" \in DOMAIN text.value

\* lines 58-69 for a non-empty string: what the destructured split gives, the
\* string handed to the ISO parser (none for a text that starts with now), the
\* anchor time and the math string; clock is the instant dateTimeForTimeZone gives
parseLocals(str, clock) ==
    LET parts    == split(str, SEPARATOR)
        hasRight == Len(parts) >= 2
        right    == IF hasRight THEN parts[2] ELSE <<>>
        isNow    == startsWith(str, NOW_STRING)
        isoInput == IF ~hasRight \/ right = <<>> THEN str ELSE parts[1]
    IN  [left       |-> parts[1],
         rightIsSet |-> hasRight,
         right      |-> right,
         usesClock  |-> isNow,
         isoInput   |-> IF isNow THEN <<>> ELSE isoInput,
         time       |-> IF isNow THEN clock ELSE dateTimeISO(isoInput),
         mathString |-> IF isNow THEN substring(str, Len(NOW_STRING), Len(str))
                        ELSE right]

\* lines 48-54: the value returned for a DateTime, a Date, a non-string or ''
parseEarly(text) ==
    IF isDateTime(text) THEN text.value.DateTime
    ELSE IF isDate(text) THEN text.value.Date
    ELSE Undefined

\* parse(text, roundUp, timezone, fiscalYearStartMonth), in UTC, as a function
parse(text, up, clock, fyStartMonth) ==
    IF typeof(text) # "string" \/ text.value = <<>> THEN parseEarly(text)
    ELSE LET l == parseLocals(text.value, clock)
         IN  IF l.mathString = <<>> THEN l.time
             ELSE parseDateMath(l.mathString, l.time, up, fyStartMonth).ret

\* isValid(text): parse is called with the text alone
isValid(text, clock) ==
    IF parse(text, FALSE, clock, 0) = Undefined THEN FALSE
    ELSE isValidDateTime(parse(text, FALSE, clock, 0))

\* the most separators a text is written with
MaxSeparators == 2

\* anchors: now, valid ISO dates, and strings that are no ISO date
Anchors ==
    { <<"n", "o", "w">>,
      <<"2", "0", "2", "1", "-", "0", "6", "-", "1", "5">>,
      <<"2", "0", "2", "1", "-", "0", "1", "-", "0", "1">>,
      <<"2", "0", "2", "0", "-", "0", "2">>,
      <<"2", "0", "2", "1", "-", "1", "3", "-", "4", "5">>,
      <<>> }

\* math written straight after the anchor
DirectMath == { <<>>, <<"-", "1", "d">> }

\* what is written after a separator
Pieces ==
    { <<>>, <<"+", "1", "d">>, <<"+", "1", "h">>, <<"/", "Q", "f">>,
      <<"/", "f", "Q">>, <<"+", "1", "x">> }

RECURSIVE JoinPieces(_)
JoinPieces(ps) ==
    IF ps = <<>> THEN <<>> ELSE SEPARATOR \o Head(ps) \o JoinPieces(Tail(ps))

\* anchor, math written straight after it, then up to MaxSeparators separated pieces
ParseTexts ==
    {a \o d \o JoinPieces(ps) : a \in Anchors, d \in DirectMath,
                                ps \in SeqsUpTo(Pieces, MaxSeparators)}

\* strings, DateTime and Date objects, and undefined
ParseInputs ==
    {[type |-> "string", value |-> str] : str \in ParseTexts}
    \cup {[type |-> "object", value |-> [DateTime |-> t]] : t \in Times}
    \cup {[type |-> "object", value |-> [Date |-> t]] : t \in Times}
    \cup {[type |-> "undefined", value |-> <<>>]}

InitParse ==
    /\ pc = "start"
    /\ \E text \in ParseInputs, clock \in Times, up \in BOOLEAN, fy \in StartMonths :
         args = [text |-> text, roundUp |-> up, timezone |-> clock,
                 fiscalYearStartMonth |-> fy]
    /\ timeObject = Undefined
    /\ locals = [strippedMathString |-> <<>>, i |-> 0]
    /\ result = Undefined
    /\ ops = <<>>
    /\ iterations = 0

\* lines 48-54: a DateTime, a Date, a non-string or the empty string
ReturnEarly ==
    /\ pc = "start"
    /\ typeof(args.text) # "string" \/ args.text.value = <<>>
    /\ pc' = "done"
    /\ result' = parseEarly(args.text)
    /\ UNCHANGED <<args, timeObject, locals, ops, iterations>>

\* lines 58-72 and 109-112: split, build the anchor time and the math string;
\* return the time when the math string is empty, enter parseDateMath otherwise
CallParse ==
    /\ pc = "start"
    /\ typeof(args.text) = "string" /\ args.text.value # <<>>
    /\ LET l == parseLocals(args.text.value, args.timezone)
       IN  /\ locals' = [left |-> l.left, rightIsSet |-> l.rightIsSet, right |-> l.right,
                         usesClock |-> l.usesClock, isoInput |-> l.isoInput,
                         time |-> l.time, mathString |-> l.mathString,
                         strippedMathString |-> StripWhitespace(l.mathString), i |-> 0]
           /\ timeObject' = l.time
           /\ pc' = IF l.mathString = <<>> THEN "done" ELSE "scan"
           /\ result' = IF l.mathString = <<>> THEN l.time ELSE Undefined
    /\ UNCHANGED <<args, ops, iterations>>

\* the scan loop of parseDateMath (lines 118-174) runs on the anchor time
NextParse == ReturnEarly \/ CallParse \/ Iterate \/ Return

SpecParse == InitParse /\ [][NextParse]_vars

(***************************************************************************)
(* What parse is expected to do.                                           *)
(***************************************************************************)
\* the text of a string argument, <<>> for any other argument
Text == IF typeof(args.text) = "string" THEN args.text.value ELSE <<>>

\* the text is anchor followed by the separator and math
AnchoredText(anchor, math) == Text = anchor \o SEPARATOR \o math

\* C11 as stated: resolve("2021-06-15||/Qf", roundUp = false, fiscalYearStartMonth = 3)
\* returns the start of the fiscal quarter, 2021-04-01 00:00, and not Invalid.
C11_FiscalQuarterExample ==
    (/\ Done
     /\ AnchoredText(<<"2", "0", "2", "1", "-", "0", "6", "-", "1", "5">>, <<"/", "Q", "f">>)
     /\ ~args.roundUp
     /\ args.fiscalYearStartMonth = 3)
        => result = DateTime(2021, 3, 1, 0, 0, 0, 0)

\* C11, amended: with the fiscal marker before the unit, as the grammar has it,
\* resolve("2021-06-15||/fQ", roundUp = false, fiscalYearStartMonth = 3) returns
\* 2021-04-01 00:00; the text "2021-06-15||/Qf" is Invalid.
C11_FiscalQuarterExampleAmended ==
    (Done /\ ~args.roundUp /\ args.fiscalYearStartMonth = 3)
        => /\ AnchoredText(<<"2", "0", "2", "1", "-", "0", "6", "-", "1", "5">>, <<"/", "f", "Q">>)
                => result = DateTime(2021, 3, 1, 0, 0, 0, 0)
           /\ AnchoredText(<<"2", "0", "2", "1", "-", "0", "6", "-", "1", "5">>, <<"/", "Q", "f">>)
                => result = Undefined

\* 2021-06-15||/fQ has been resolved to the first of April
C11_Witness ==
    /\ Done
    /\ AnchoredText(<<"2", "0", "2", "1", "-", "0", "6", "-", "1", "5">>, <<"/", "f", "Q">>)
    /\ ~args.roundUp
    /\ args.fiscalYearStartMonth = 3
    /\ result = DateTime(2021, 3, 1, 0, 0, 0, 0)

\* the 1-based position of the first || in str, 0 when str has none
FirstSeparator(str) ==
    IF \E k \in 1..(Len(str) - 1) : str[k] = "|" /\ str[k + 1] = "|"
    THEN CHOOSE k \in 1..(Len(str) - 1) :
             /\ str[k] = "|" /\ str[k + 1] = "|"
             /\ \A j \in 1..(k - 1) : ~(str[j] = "|" /\ str[j + 1] = "|")
    ELSE 0

HasSeparator(str) == FirstSeparator(str) > 0

\* the part of str before its first ||, all of str when it has none
BeforeFirstSeparator(str) ==
    IF HasSeparator(str) THEN SubSeq(str, 1, FirstSeparator(str) - 1) ELSE str

\* the part of str after its first ||
AfterFirstSeparator(str) == SubSeq(str, FirstSeparator(str) + 2, Len(str))

StartsWithNow(str) == Len(str) >= 3 /\ str[1] = "n" /\ str[2] = "o" /\ str[3] = "w"

\* a string that does not start with now has been resolved
ResolvedAnchored == Done /\ Text # <<>> /\ ~StartsWithNow(Text)

\* a string that starts with now has been resolved
ResolvedNow == Done /\ StartsWithNow(Text)

\* C12: for a text that does not start with now, the math string is everything
\* after the first ||; a text with a second || has it inside its math string and
\* is Invalid, nothing after the first separator is discarded.
C12_SplitOnFirstSeparator ==
    (ResolvedAnchored /\ HasSeparator(Text))
        => /\ locals.mathString = AfterFirstSeparator(Text)
           /\ HasSeparator(AfterFirstSeparator(Text)) => result = Undefined

\* C13: for a text that starts with now, the anchor is the current instant and
\* the math string is the text after now up to the first ||, or to the end; a ||
\* is not fed to the evaluator.
C13_NowMathString ==
    ResolvedNow
        => LET math == BeforeFirstSeparator(SubSeq(Text, 4, Len(Text)))
           IN  /\ locals.time = args.timezone
               /\ locals.mathString = math
               /\ result = parseDateMath(math, args.timezone, args.roundUp,
                                         args.fiscalYearStartMonth).ret

\* the part of a text that is its anchor
AnchorPart == BeforeFirstSeparator(Text)

\* C19: for a text that does not start with now and contains ||, the string
\* handed to the ISO parser is exactly the part before the first ||, also when
\* the math part is empty.
C19_AnchorIsLeftPart ==
    (ResolvedAnchored /\ HasSeparator(Text)) => locals.isoInput = AnchorPart

\* C18: for a text that does not start with now and whose anchor is not a valid
\* strict ISO 8601 date, resolve returns the no-result signal, the value it
\* returns for a bad operator or unit, with or without a math suffix.
C18_MalformedAnchorIsInvalid ==
    (ResolvedAnchored /\ ~isValidDateTime(dateTimeISO(AnchorPart)))
        => result = Undefined

\* a text that is an anchor alone: now, or a valid ISO date
BareAnchor ==
    \/ Text = <<"n", "o", "w">>
    \/ /\ Text # <<>>
       /\ ~StartsWithNow(Text)
       /\ ~HasSeparator(Text)
       /\ isValidDateTime(dateTimeISO(Text))

\* math strings with nothing but whitespace in them
BlankMath ==
    { <<>>, <<" ">>, <<" ", "\t">>, <<"\n", " ", " ">>, <<"\r", "\n">>, <<"\f">>,
      <<" ", "">>, <<"﻿", " ">> }

\* C15: resolve on a bare now or on an ISO anchor with no math suffix returns
\* the anchor, with no shift and no rounding, whatever roundUp and the fiscal
\* start month; evaluateMath on an empty or whitespace-only math string returns
\* the starting timestamp unchanged.
C15_EmptyMathIsNoOp ==
    (Done /\ BareAnchor)
        => /\ result = IF Text = <<"n", "o", "w">> THEN args.timezone ELSE dateTimeISO(Text)
           /\ iterations = 0
           /\ \A blank \in BlankMath :
                  parseDateMath(blank, result, args.roundUp, args.fiscalYearStartMonth)
                      = [ret |-> result, obj |-> result]

\* 2021-01-01 has been resolved with roundUp set and a fiscal year starting in April
C15_Witness ==
    /\ Done
    /\ Text = <<"2", "0", "2", "1", "-", "0", "1", "-", "0", "1">>
    /\ args.roundUp
    /\ args.fiscalYearStartMonth = 3
    /\ result = DateTime(2021, 0, 1, 0, 0, 0, 0)

====
